---- MODULE Spec2Model ----
(***************************************************************************)
(* Model of the todo list of rahul4507/todo: the List/Item data model of   *)
(* package todo (Add, Complete, Sort, Delete, Edit, Uncomplete,            *)
(* ClearCompleted, SetPriority, SetDueDate, AddTag, RemoveTag), its        *)
(* queries (GetStats, Search, FilterByPriority, FilterByTag, GetOverdue,   *)
(* ParsePriority), its JSON                                                *)
(* persistence (Save, Load), and the commands of the program (main and     *)
(* runInteractive).                                                        *)
(*                                                                         *)
(* Go indexes slices from 0, TLA+ sequences from 1: an operation's index   *)
(* argument keeps Go's numbering, and l.Items[index] is items[index + 1].  *)
(* A nil slice and an empty slice are both the empty sequence: the code    *)
(* only takes len, ranges over and appends to its slices.                  *)
(*                                                                         *)
(* Every operation records what it was called with and what it returned in *)
(* last, and the list it was called on in pre, so that a property of one   *)
(* call (its result, and the list before and after) is a state predicate.  *)
(***************************************************************************)
EXTENDS Integers, Sequences, FiniteSets, TLC

VARIABLES
    items,   \* l.Items of the list under test
    now,     \* the instant time.Now() returns; 0 is the zero time.Time
    pre,     \* l.Items when the last operation was called
    last,    \* the last operation: its name, arguments and results
    file,    \* the content of the file Save writes, NoFile while it does not exist
    loaded,  \* Items of a second list, made by NewList(), that Load reads into
    out,     \* what the last call returned besides its error, <<>> if nothing
    session, \* TRUE while runInteractive reads commands for the list
    procs,   \* the runs of the program that share the file, and its writes
    held     \* the results of queries that the caller still holds

vars == <<items, now, pre, last, file, loaded, out, session, procs, held>>

(***************************************************************************)
(* Bounds.                                                                 *)
(***************************************************************************)
\* Largest list explored: items plus attributes set on them (tags, due
\* dates, priorities other than the default).
MaxSize == 4
\* Last instant of the clock.
MaxNow == 2
\* Longest list explored where the clock runs.
MaxClockLen == 2
\* Most writes of the file by runs of the program that share it.
MaxWrites == 3

(***************************************************************************)
(* Inputs.                                                                 *)
(***************************************************************************)
\* Texts given to Add: neither NewItem nor Add looks at the text except to
\* compare it with the texts in the list.
Texts == {"", "Task 1", "Task 2", "Task 3"}
\* Queries given to Search: the empty one, part of a text in another case,
\* a tag in upper case, a letter of two tags, a letter of the texts and of a
\* tag, and a letter of none.
Queries == {"", "K 2", "WORK", "o", "T", "x"}

TagNames == {"work", "home", "urgent"}
\* Texts given to Edit: the rejected one and one that an item may hold already.
NewTexts == {"", "Task 1"}
Dates == {1, 2}
\* One index below the range, every index in it, and the length.
Indices == -1..Len(items)

(***************************************************************************)
(* Priority.                                                               *)
(***************************************************************************)
PriorityLow == 0
PriorityMedium == 1
PriorityHigh == 2
Priorities == {PriorityLow, PriorityMedium, PriorityHigh}

\* The words ParsePriority knows, as sequences of characters.
WordHigh == <<"H", "I", "G", "H">>
WordH == <<"H">>
WordMedium == <<"M", "E", "D", "I", "U", "M">>
WordMed == <<"M", "E", "D">>
WordM == <<"M">>
WordLow == <<"L", "O", "W">>
WordL == <<"L">>

(***************************************************************************)
(* Errors: the messages of errors.New; Nil is the nil error.               *)
(***************************************************************************)
Nil == "nil"
ErrRange == "Item index out of Range"
ErrExists == "Item already exists in the list"
ErrEmptyText == "Task text cannot be empty"
ErrTagExists == "Tag already exists"
ErrTagNotFound == "Tag not found"
ErrNoFile == "open: no such file or directory"
ErrWrite == "open: permission denied"
ErrSyntax == "invalid character 'i' looking for beginning of value"
ErrType == "json: cannot unmarshal string into Go struct field of type bool"
ErrMissing == "Missing the item number"
ErrNumber == "Invalid item number"
ErrDate == "Invalid date format. Use YYYY-MM-DD"
ErrUnknown == "Unknown command"

\* The file does not exist.
NoFile == [exists |-> FALSE]

(***************************************************************************)
(* Item and List.                                                          *)
(***************************************************************************)
\* An item made with priority High.
NewItemHigh(text) ==
    [Text |-> text, Done |-> FALSE, Priority |-> PriorityHigh,
     DueDate |-> <<>>, Tags |-> <<>>, CreatedAt |-> now]

\* DueDate is a *time.Time: <<>> is nil, <<d>> points to the instant d.
NewItem(text) ==
    [Text |-> text, Done |-> FALSE, Priority |-> PriorityMedium,
     DueDate |-> <<>>, Tags |-> <<>>, CreatedAt |-> now]

\* The zero value of Item, which a decoder starts from.
ZeroItem ==
    [Text |-> "", Done |-> FALSE, Priority |-> PriorityLow,
     DueDate |-> <<>>, Tags |-> <<>>, CreatedAt |-> 0]

NewList == <<>>

IsDone(item) == item.Done
NotDone(item) == ~item.Done

InRange(index, s) == ~(index < 0 \/ index >= Len(s))

\* Number of attributes set on the items of s.
RECURSIVE Attrs(_)
Attrs(s) ==
    IF s = <<>> THEN 0
    ELSE Len(Head(s).Tags) + Len(Head(s).DueDate)
         + (IF Head(s).Priority = PriorityMedium THEN 0 ELSE 1)
         + Attrs(Tail(s))

Size(s) == Len(s) + Attrs(s)

\* What an operation leaves in last.
Call(op, index, text, num, err, count) ==
    [op |-> op, index |-> index, text |-> text, num |-> num, err |-> err,
     count |-> count]

\* No call has returned that the caller still looks at.
NoCall == Call("", 0, "", 0, Nil, 0)

\* The runs of the program: where each is, the list it holds, the text it
\* adds, what it reports, the number of writes of the file when it loaded
\* and the number of its own write; and the number of writes so far.
Run0 ==
    [pc |-> "start", list |-> NewList, text |-> "", err |-> Nil, seen |-> 0,
     wrote |-> 0]
NoRuns == [run |-> [p \in {1, 2} |-> Run0], writes |-> 0]

\* The memory behind the tags: for each item of the list the capacity of its
\* Tags slice and the array the slice points into, and the slice of Items a
\* query returned that its caller still holds. Nothing is tracked until a
\* specification uses the operations that track it.
NoneHeld == [caps |-> <<>>, arrays |-> <<>>, results |-> <<>>]

Init ==
    /\ items = NewList
    /\ now = 1
    /\ pre = <<>>
    /\ last = NoCall
    /\ file = NoFile
    /\ loaded = NewList
    /\ out = <<>>
    /\ session = FALSE
    /\ procs = NoRuns
    /\ held = NoneHeld

(***************************************************************************)
(* The operations of List.                                                 *)
(***************************************************************************)
\* Add that compares the text with the text of the last item only.
AddItemsCheckLast(s, text) ==
    IF s # <<>> /\ s[Len(s)].Text = NewItem(text).Text
    THEN s
    ELSE Append(s, NewItem(text))

\* Add without the scan for an item of the same text.
AddItemsUnchecked(s, text) == Append(s, NewItem(text))

AddItems(s, text) ==
    IF \E k \in 1..Len(s) : s[k].Text = NewItem(text).Text
    THEN s
    ELSE Append(s, NewItem(text))

AddErr(s, text) ==
    IF \E k \in 1..Len(s) : s[k].Text = NewItem(text).Text THEN ErrExists ELSE Nil

Add(text) ==
    /\ Size(AddItems(items, text)) <= MaxSize
    /\ items' = AddItems(items, text)
    /\ pre' = items
    /\ last' = Call("Add", 0, text, 0, AddErr(items, text), 0)
    /\ UNCHANGED <<now, file, loaded, out, session, procs, held>>

\* Sort that puts each completed item in front of those found before it.
SortItemsUnstable(s) ==
    LET done == SelectSeq(s, IsDone)
    IN  SelectSeq(s, NotDone) \o [k \in 1..Len(done) |-> done[Len(done) + 1 - k]]

\* Sort: the incomplete items in their order, then the completed ones in theirs.
SortItems(s) == SelectSeq(s, NotDone) \o SelectSeq(s, IsDone)

\* Complete without the call of Sort.
CompleteItemsUnsorted(s, index) ==
    IF ~InRange(index, s) THEN s
    ELSE [s EXCEPT ![index + 1].Done = TRUE]

\* Complete that moves the item behind every other item.
CompleteItemsLast(s, index) ==
    IF ~InRange(index, s) THEN s
    ELSE LET others == [k \in 1..(Len(s) - 1) |->
                           IF k < index + 1 THEN s[k] ELSE s[k + 1]]
         IN  SelectSeq(others, NotDone) \o SelectSeq(others, IsDone)
                 \o <<[s[index + 1] EXCEPT !.Done = TRUE]>>

CompleteItems(s, index) ==
    IF ~InRange(index, s) THEN s
    ELSE SortItems([s EXCEPT ![index + 1].Done = TRUE])

\* The range check with index > len(l.Items) for index >= len(l.Items).
RangeErrOffByOne(s, index) == IF index < 0 \/ index > Len(s) THEN ErrRange ELSE Nil

RangeErr(s, index) == IF ~InRange(index, s) THEN ErrRange ELSE Nil

Complete(index) ==
    /\ items' = CompleteItems(items, index)
    /\ pre' = items
    /\ last' = Call("Complete", index, "", 0, RangeErr(items, index), 0)
    /\ UNCHANGED <<now, file, loaded, out, session, procs, held>>

Sort ==
    /\ items' = SortItems(items)
    /\ pre' = items
    /\ last' = Call("Sort", 0, "", 0, Nil, 0)
    /\ UNCHANGED <<now, file, loaded, out, session, procs, held>>

\* Delete that moves the last item into the hole and cuts the slice.
DeleteItemsSwap(s, index) ==
    IF ~InRange(index, s) THEN s
    ELSE SubSeq([s EXCEPT ![index + 1] = s[Len(s)]], 1, Len(s) - 1)

DeleteItems(s, index) ==
    IF ~InRange(index, s) THEN s
    ELSE SubSeq(s, 1, index) \o SubSeq(s, index + 2, Len(s))

Delete(index) ==
    /\ items' = DeleteItems(items, index)
    /\ pre' = items
    /\ last' = Call("Delete", index, "", 0, RangeErr(items, index), 0)
    /\ UNCHANGED <<now, file, loaded, out, session, procs, held>>

\* Edit that refuses the text of another item.
EditErrUnique(s, index, newText) ==
    IF ~InRange(index, s) THEN ErrRange
    ELSE IF newText = "" THEN ErrEmptyText
    ELSE IF \E k \in 1..Len(s) : k # index + 1 /\ s[k].Text = newText THEN ErrExists
    ELSE Nil

EditErr(s, index, newText) ==
    IF ~InRange(index, s) THEN ErrRange
    ELSE IF newText = "" THEN ErrEmptyText
    ELSE Nil

\* Edit that also stamps the item with the current time.
EditItemsTouch(s, index, newText) ==
    IF EditErr(s, index, newText) # Nil THEN s
    ELSE [s EXCEPT ![index + 1].Text = newText, ![index + 1].CreatedAt = now]

EditItems(s, index, newText) ==
    IF EditErr(s, index, newText) # Nil THEN s
    ELSE [s EXCEPT ![index + 1].Text = newText]

Edit(index, newText) ==
    /\ items' = EditItems(items, index, newText)
    /\ pre' = items
    /\ last' = Call("Edit", index, newText, 0, EditErr(items, index, newText), 0)
    /\ UNCHANGED <<now, file, loaded, out, session, procs, held>>

\* Uncomplete that puts the item in front of the list.
UncompleteItemsFront(s, index) ==
    IF ~InRange(index, s) THEN s
    ELSE LET others == [k \in 1..(Len(s) - 1) |->
                           IF k < index + 1 THEN s[k] ELSE s[k + 1]]
         IN  <<[s[index + 1] EXCEPT !.Done = FALSE]>>
                 \o SelectSeq(others, NotDone) \o SelectSeq(others, IsDone)

\* Uncomplete without the call of Sort.
UncompleteItemsUnsorted(s, index) ==
    IF ~InRange(index, s) THEN s
    ELSE [s EXCEPT ![index + 1].Done = FALSE]

UncompleteItems(s, index) ==
    IF ~InRange(index, s) THEN s
    ELSE SortItems([s EXCEPT ![index + 1].Done = FALSE])

Uncomplete(index) ==
    /\ items' = UncompleteItems(items, index)
    /\ pre' = items
    /\ last' = Call("Uncomplete", index, "", 0, RangeErr(items, index), 0)
    /\ UNCHANGED <<now, file, loaded, out, session, procs, held>>

\* The loop of ClearCompleted: the items kept and the count of those dropped.
RECURSIVE ClearLoop(_, _, _)
ClearLoop(s, incomplete, count) ==
    IF s = <<>> THEN [incomplete |-> incomplete, count |-> count]
    ELSE IF ~Head(s).Done
         THEN ClearLoop(Tail(s), Append(incomplete, Head(s)), count)
         ELSE ClearLoop(Tail(s), incomplete, count + 1)

\* ClearCompleted that cuts the list at its first completed item.
ClearCompletedItemsCut(s) ==
    IF \A k \in 1..Len(s) : ~s[k].Done THEN s
    ELSE SubSeq(s, 1, (CHOOSE k \in 1..Len(s) :
                          s[k].Done /\ \A j \in 1..(k - 1) : ~s[j].Done) - 1)

ClearCompletedItems(s) == ClearLoop(s, <<>>, 0).incomplete
ClearCompletedCount(s) == ClearLoop(s, <<>>, 0).count

ClearCompleted ==
    /\ items' = ClearCompletedItems(items)
    /\ pre' = items
    /\ last' = Call("ClearCompleted", 0, "", 0, Nil, ClearCompletedCount(items))
    /\ UNCHANGED <<now, file, loaded, out, session, procs, held>>

\* SetPriority followed by Sort.
SetPriorityItemsSorted(s, index, priority) ==
    IF ~InRange(index, s) THEN s
    ELSE SortItems([s EXCEPT ![index + 1].Priority = priority])

SetPriorityItems(s, index, priority) ==
    IF ~InRange(index, s) THEN s
    ELSE [s EXCEPT ![index + 1].Priority = priority]

SetPriority(index, priority) ==
    /\ Size(SetPriorityItems(items, index, priority)) <= MaxSize
    /\ items' = SetPriorityItems(items, index, priority)
    /\ pre' = items
    /\ last' = Call("SetPriority", index, "", priority, RangeErr(items, index), 0)
    /\ UNCHANGED <<now, file, loaded, out, session, procs, held>>

SetDueDateItems(s, index, dueDate) ==
    IF ~InRange(index, s) THEN s
    ELSE [s EXCEPT ![index + 1].DueDate = <<dueDate>>]

SetDueDate(index, dueDate) ==
    /\ Size(SetDueDateItems(items, index, dueDate)) <= MaxSize
    /\ items' = SetDueDateItems(items, index, dueDate)
    /\ pre' = items
    /\ last' = Call("SetDueDate", index, "", dueDate, RangeErr(items, index), 0)
    /\ UNCHANGED <<now, file, loaded, out, session, procs, held>>

HasTag(tags, tag) == \E k \in 1..Len(tags) : tags[k] = tag

AddTagErr(s, index, tag) ==
    IF ~InRange(index, s) THEN ErrRange
    ELSE IF HasTag(s[index + 1].Tags, tag) THEN ErrTagExists
    ELSE Nil

\* AddTag without the scan for the tag.
AddTagItemsUnchecked(s, index, tag) ==
    IF ~InRange(index, s) THEN s
    ELSE [s EXCEPT ![index + 1].Tags = Append(@, tag)]

AddTagItems(s, index, tag) ==
    IF AddTagErr(s, index, tag) # Nil THEN s
    ELSE [s EXCEPT ![index + 1].Tags = Append(@, tag)]

AddTag(index, tag) ==
    /\ Size(AddTagItems(items, index, tag)) <= MaxSize
    /\ items' = AddTagItems(items, index, tag)
    /\ pre' = items
    /\ last' = Call("AddTag", index, tag, 0, AddTagErr(items, index, tag), 0)
    /\ UNCHANGED <<now, file, loaded, out, session, procs, held>>

\* Removal that moves the last tag into the hole and cuts the slice.
RemoveFirstSwap(tags, tag) ==
    LET i == CHOOSE k \in 1..Len(tags) :
                 /\ tags[k] = tag
                 /\ \A j \in 1..(k - 1) : tags[j] # tag
    IN  SubSeq([tags EXCEPT ![i] = tags[Len(tags)]], 1, Len(tags) - 1)

\* append(tags[:i], tags[i+1:]...) at the first i with tags[i] == tag.
RemoveFirst(tags, tag) ==
    LET i == CHOOSE k \in 1..Len(tags) :
                 /\ tags[k] = tag
                 /\ \A j \in 1..(k - 1) : tags[j] # tag
    IN  SubSeq(tags, 1, i - 1) \o SubSeq(tags, i + 1, Len(tags))

RemoveTagErr(s, index, tag) ==
    IF ~InRange(index, s) THEN ErrRange
    ELSE IF ~HasTag(s[index + 1].Tags, tag) THEN ErrTagNotFound
    ELSE Nil

RemoveTagItems(s, index, tag) ==
    IF RemoveTagErr(s, index, tag) # Nil THEN s
    ELSE [s EXCEPT ![index + 1].Tags = RemoveFirst(@, tag)]

RemoveTag(index, tag) ==
    /\ items' = RemoveTagItems(items, index, tag)
    /\ pre' = items
    /\ last' = Call("RemoveTag", index, tag, 0, RemoveTagErr(items, index, tag), 0)
    /\ UNCHANGED <<now, file, loaded, out, session, procs, held>>

CoreNext ==
    \/ \E text \in Texts : Add(text)
    \/ \E index \in Indices : Complete(index)
    \/ Sort
    \/ \E index \in Indices : Delete(index)
    \/ \E index \in Indices, newText \in NewTexts : Edit(index, newText)
    \/ \E index \in Indices : Uncomplete(index)
    \/ ClearCompleted
    \/ \E index \in Indices, priority \in Priorities : SetPriority(index, priority)
    \/ \E index \in Indices, dueDate \in Dates : SetDueDate(index, dueDate)
    \/ \E index \in Indices, tag \in TagNames : AddTag(index, tag)
    \/ \E index \in Indices, tag \in TagNames : RemoveTag(index, tag)

(***************************************************************************)
(* Strings. A text, a tag or a query is a TLA+ string; Chars gives the     *)
(* sequence of its characters, on which package strings works.             *)
(***************************************************************************)
Chars(str) ==
    CASE str = "" -> <<>>
      [] str = "Task 1" -> <<"T", "a", "s", "k", " ", "1">>
      [] str = "Task 2" -> <<"T", "a", "s", "k", " ", "2">>
      [] str = "Task 3" -> <<"T", "a", "s", "k", " ", "3">>
      [] str = "work" -> <<"w", "o", "r", "k">>
      [] str = "home" -> <<"h", "o", "m", "e">>
      [] str = "urgent" -> <<"u", "r", "g", "e", "n", "t">>
      [] str = "WORK" -> <<"W", "O", "R", "K">>
      [] str = "K 2" -> <<"K", " ", "2">>
      [] str = "o" -> <<"o">>
      [] str = "T" -> <<"T">>
      [] str = "x" -> <<"x">>
      [] str = "-1" -> <<"-", "1">>
      [] str = "0" -> <<"0">>
      [] str = "1" -> <<"1">>
      [] str = "2" -> <<"2">>
      [] str = "3" -> <<"3">>
      [] str = "high" -> <<"h", "i", "g", "h">>

UpperLetters ==
    <<"A", "B", "C", "D", "E", "F", "G", "H", "I", "J", "K", "L", "M",
      "N", "O", "P", "Q", "R", "S", "T", "U", "V", "W", "X", "Y", "Z">>
LowerLetters ==
    <<"a", "b", "c", "d", "e", "f", "g", "h", "i", "j", "k", "l", "m",
      "n", "o", "p", "q", "r", "s", "t", "u", "v", "w", "x", "y", "z">>

\* unicode.ToLower and unicode.ToUpper of one character.
ToLowerChar(c) ==
    IF \E k \in 1..Len(UpperLetters) : UpperLetters[k] = c
    THEN LowerLetters[CHOOSE k \in 1..Len(UpperLetters) : UpperLetters[k] = c]
    ELSE c
ToUpperChar(c) ==
    IF \E k \in 1..Len(LowerLetters) : LowerLetters[k] = c
    THEN UpperLetters[CHOOSE k \in 1..Len(LowerLetters) : LowerLetters[k] = c]
    ELSE c

\* strings.ToLower, strings.ToUpper and strings.Contains.
ToLower(s) == [k \in 1..Len(s) |-> ToLowerChar(s[k])]
ToUpper(s) == [k \in 1..Len(s) |-> ToUpperChar(s[k])]
Contains(s, substr) ==
    \E i \in 0..(Len(s) - Len(substr)) : SubSeq(s, i + 1, i + Len(substr)) = substr

\* ParsePriority that compares the string as it was given.
ParsePriorityExact(s) ==
    IF s \in {WordHigh, WordH} THEN PriorityHigh
    ELSE IF s \in {WordMedium, WordMed, WordM} THEN PriorityMedium
    ELSE IF s \in {WordLow, WordL} THEN PriorityLow
    ELSE PriorityMedium

\* The switch of ParsePriority on strings.ToUpper(s).
ParsePriority(s) ==
    IF ToUpper(s) \in {WordHigh, WordH} THEN PriorityHigh
    ELSE IF ToUpper(s) \in {WordMedium, WordMed, WordM} THEN PriorityMedium
    ELSE IF ToUpper(s) \in {WordLow, WordL} THEN PriorityLow
    ELSE PriorityMedium

\* A call of ParsePriority: out keeps the string given and the priority
\* returned.
CallParsePriority(s) ==
    /\ out' = [input |-> s, priority |-> ParsePriority(s)]
    /\ pre' = items
    /\ last' = Call("ParsePriority", 0, "", 0, Nil, 0)
    /\ UNCHANGED <<items, now, file, loaded, session, procs, held>>

(***************************************************************************)
(* Queries: they leave the list alone and return a value, kept in out.     *)
(***************************************************************************)
\* The loop of GetStats over the items, from stats = Stats{Total: len}.
RECURSIVE StatsLoop(_, _)
StatsLoop(s, stats) ==
    IF s = <<>> THEN stats
    ELSE IF Head(s).Done
         THEN StatsLoop(Tail(s), [stats EXCEPT !.Completed = @ + 1])
         ELSE StatsLoop(Tail(s), [stats EXCEPT !.Pending = @ + 1])

\* Stats that count every item as pending.
StatsOfAllPending(s) == [Total |-> Len(s), Completed |-> 0, Pending |-> Len(s)]

StatsOf(s) == StatsLoop(s, [Total |-> Len(s), Completed |-> 0, Pending |-> 0])

GetStats ==
    /\ out' = StatsOf(items)
    /\ pre' = items
    /\ last' = Call("GetStats", 0, "", 0, Nil, 0)
    /\ UNCHANGED <<items, now, file, loaded, session, procs, held>>

\* Texts and tags are compared with the query as it was given.
SearchItemsCaseSensitive(s, query) ==
    SelectSeq(s, LAMBDA item :
        \/ Contains(Chars(item.Text), Chars(query))
        \/ \E k \in 1..Len(item.Tags) : Contains(Chars(item.Tags[k]), Chars(query)))

\* The loop of Search: an item is appended when its text matches, and else
\* at the first of its tags that matches.
RECURSIVE SearchLoop(_, _, _)
SearchLoop(s, query, results) ==
    IF s = <<>> THEN results
    ELSE IF Contains(ToLower(Chars(Head(s).Text)), query)
         THEN SearchLoop(Tail(s), query, Append(results, Head(s)))
         ELSE IF \E k \in 1..Len(Head(s).Tags) :
                     Contains(ToLower(Chars(Head(s).Tags[k])), query)
              THEN SearchLoop(Tail(s), query, Append(results, Head(s)))
              ELSE SearchLoop(Tail(s), query, results)

SearchItems(s, query) == SearchLoop(s, ToLower(Chars(query)), <<>>)

Search(query) ==
    /\ out' = SearchItems(items, query)
    /\ pre' = items
    /\ last' = Call("Search", 0, query, 0, Nil, 0)
    /\ UNCHANGED <<items, now, file, loaded, session, procs, held>>

\* t.Before(u) of two instants.
Before(t, u) == t < u

\* Items that are due at the instant of the call count as overdue.
OverdueItemsInclusive(s, instant) ==
    SelectSeq(s, LAMBDA item :
        item.DueDate # <<>> /\ ~Before(instant, item.DueDate[1]) /\ ~item.Done)

\* The loop of GetOverdue, with the instant time.Now() returned before it.
RECURSIVE OverdueLoop(_, _, _)
OverdueLoop(s, instant, results) ==
    IF s = <<>> THEN results
    ELSE IF Head(s).DueDate # <<>> /\ Before(Head(s).DueDate[1], instant)
            /\ ~Head(s).Done
         THEN OverdueLoop(Tail(s), instant, Append(results, Head(s)))
         ELSE OverdueLoop(Tail(s), instant, results)

OverdueItems(s, instant) == OverdueLoop(s, instant, <<>>)

GetOverdue ==
    /\ out' = OverdueItems(items, now)
    /\ pre' = items
    /\ last' = Call("GetOverdue", 0, "", 0, Nil, 0)
    /\ UNCHANGED <<items, now, file, loaded, session, procs, held>>

\* The loop of FilterByPriority.
RECURSIVE PriorityLoop(_, _, _)
PriorityLoop(s, priority, results) ==
    IF s = <<>> THEN results
    ELSE IF Head(s).Priority = priority
         THEN PriorityLoop(Tail(s), priority, Append(results, Head(s)))
         ELSE PriorityLoop(Tail(s), priority, results)

FilterByPriorityItems(s, priority) == PriorityLoop(s, priority, <<>>)

\* The loop of FilterByTag: an item is appended at the first of its tags
\* that is the tag.
RECURSIVE TagLoop(_, _, _)
TagLoop(s, tag, results) ==
    IF s = <<>> THEN results
    ELSE IF \E k \in 1..Len(Head(s).Tags) : Head(s).Tags[k] = tag
         THEN TagLoop(Tail(s), tag, Append(results, Head(s)))
         ELSE TagLoop(Tail(s), tag, results)

FilterByTagItems(s, tag) == TagLoop(s, tag, <<>>)

(***************************************************************************)
(* Persistence: json.Marshal and json.Unmarshal of a List.                 *)
(***************************************************************************)
\* Item with DueDate left out of the encoding.
MarshalItemNoDueDate(item) ==
    LET always == [Text |-> item.Text, Done |-> item.Done,
                   Priority |-> item.Priority, CreatedAt |-> item.CreatedAt]
    IN  IF Len(item.Tags) = 0 THEN always ELSE always @@ [Tags |-> item.Tags]

\* The JSON object of an Item: a record of the keys written. DueDate and Tags
\* are omitempty: a nil pointer and a slice of length 0 write no key.
MarshalItem(item) ==
    LET always == [Text |-> item.Text, Done |-> item.Done,
                   Priority |-> item.Priority, CreatedAt |-> item.CreatedAt]
        due == IF item.DueDate = <<>> THEN always
               ELSE always @@ [DueDate |-> item.DueDate[1]]
    IN  IF Len(item.Tags) = 0 THEN due ELSE due @@ [Tags |-> item.Tags]

Marshal(s) == [exists |-> TRUE, Items |-> [k \in 1..Len(s) |-> MarshalItem(s[k])]]

\* Decoding an object into an Item sets the fields whose keys the object
\* holds and leaves the others as they are.
UnmarshalItem(obj, into) ==
    [Text |-> IF "Text" \in DOMAIN obj THEN obj.Text ELSE into.Text,
     Done |-> IF "Done" \in DOMAIN obj THEN obj.Done ELSE into.Done,
     Priority |-> IF "Priority" \in DOMAIN obj THEN obj.Priority ELSE into.Priority,
     DueDate |-> IF "DueDate" \in DOMAIN obj THEN <<obj.DueDate>> ELSE into.DueDate,
     Tags |-> IF "Tags" \in DOMAIN obj THEN obj.Tags ELSE into.Tags,
     CreatedAt |-> IF "CreatedAt" \in DOMAIN obj THEN obj.CreatedAt
                   ELSE into.CreatedAt]

\* Decoding an array into a slice decodes element k into the slice's element
\* k where it has one and into a zero Item where it has none, and cuts the
\* slice to the length of the array.
Unmarshal(data, s) ==
    [k \in 1..Len(data.Items) |->
        UnmarshalItem(data.Items[k], IF k <= Len(s) THEN s[k] ELSE ZeroItem)]

\* os.WriteFile writes the file (ok) or fails and leaves it alone.
Save(ok) ==
    /\ file' = IF ok THEN Marshal(items) ELSE file
    /\ pre' = items
    /\ last' = Call("Save", 0, "", 0, IF ok THEN Nil ELSE ErrWrite, 0)
    /\ UNCHANGED <<items, now, loaded, out, session, procs, held>>

\* A file that is not JSON: the validity scan of json.Unmarshal fails on it.
Garbage == [exists |-> TRUE, text |-> "invalid json content {{{"]

\* A file that is JSON but not of a List: the value of the key Done of its
\* one object is a string. Mistyped names the keys of an object whose values
\* are of a JSON type the field cannot take.
MistypedFile ==
    [exists |-> TRUE,
     Items |-> <<[Text |-> "Task 2", Priority |-> PriorityMedium,
                  CreatedAt |-> 1, Mistyped |-> {"Done"}]>>]

\* The validity scan passes: the file is a JSON object with the key Items.
WellFormed(data) == "Items" \in DOMAIN data

\* json.Unmarshal returns the syntax error before it decodes anything; a
\* value of the wrong type is skipped, the rest is decoded, and the error is
\* returned at the end.
UnmarshalErr(data) ==
    IF ~WellFormed(data) THEN ErrSyntax
    ELSE IF \E k \in 1..Len(data.Items) :
                "Mistyped" \in DOMAIN data.Items[k] /\ data.Items[k].Mistyped # {}
         THEN ErrType
         ELSE Nil

LoadErr == IF file = NoFile THEN ErrNoFile ELSE UnmarshalErr(file)

\* l.Items after l.Load: os.ReadFile fails and Load returns, or
\* json.Unmarshal decodes into l.
LoadItems(data, s) ==
    IF data = NoFile THEN s
    ELSE IF ~WellFormed(data) THEN s
    ELSE Unmarshal(data, s)

\* Load on the second list.
Load ==
    /\ loaded' = LoadItems(file, loaded)
    /\ pre' = loaded
    /\ last' = Call("Load", 0, "", 0, LoadErr, 0)
    /\ UNCHANGED <<items, now, file, out, session, procs, held>>

\* Another program writes the file.
WriteFile(data) ==
    /\ file' = data
    /\ UNCHANGED <<items, now, pre, last, loaded, out, session, procs, held>>

(***************************************************************************)
(* The program: main runs one command on the list it loads from the file   *)
(* and exits; runInteractive reads commands for the list main loaded until *)
(* quit. args is the command line behind the flags, or the fields of an    *)
(* input line: args[1] is Go's args[0], the command.                       *)
(***************************************************************************)
Digits == <<"0", "1", "2", "3", "4", "5", "6", "7", "8", "9">>

\* The number a sequence of digits writes.
RECURSIVE DigitsValue(_, _)
DigitsValue(digits, acc) ==
    IF digits = <<>> THEN acc
    ELSE DigitsValue(Tail(digits),
                     10 * acc + (CHOOSE d \in 0..9 : Digits[d + 1] = Head(digits)))

\* strconv.Atoi: an optional sign and at least one digit, or an error.
Atoi(str) ==
    LET c == Chars(str)
        signed == c # <<>> /\ c[1] \in {"-", "+"}
        digits == IF signed THEN Tail(c) ELSE c
    IN  IF digits = <<>> \/ \E k \in 1..Len(digits) :
                               \A d \in 1..10 : Digits[d] # digits[k]
        THEN [err |-> TRUE, num |-> 0]
        ELSE [err |-> FALSE,
              num |-> IF signed /\ c[1] = "-" THEN 0 - DigitsValue(digits, 0)
                      ELSE DigitsValue(digits, 0)]

\* time.Parse("2006-01-02", str) of the dates given: the instant of the day,
\* or an error.
ParseDate(str) ==
    IF str = "2024-01-01" THEN [err |-> FALSE, date |-> 1]
    ELSE [err |-> TRUE, date |-> 0]

\* strings.Join(words, " ") of the words given.
Join(words) ==
    CASE words = <<>> -> ""
      [] Len(words) = 1 -> words[1]
      [] words = <<"Task", "1">> -> "Task 1"
      [] words = <<"Task", "2">> -> "Task 2"

\* The item number is passed on as it was given.
ItemIndexSame(num) == num

\* The index a command passes to the list for the item number num.
ItemIndex(num) == num - 1

\* The lines of List.String: item i of the loop is printed behind i+1.
Rendered(s) == [k \in 1..Len(s) |-> [number |-> (k - 1) + 1, item |-> s[k]]]

BatchCommands ==
    {"add", "complete", "uncomplete", "delete", "edit", "clear", "priority",
     "due", "tag", "untag"}
InteractiveCommands == {"add", "complete", "uncomplete", "delete", "edit", "clear"}

\* A command that ends before it calls the list.
Refused(s, err) ==
    [core |-> "", index |-> 0, text |-> "", num |-> 0, numeric |-> FALSE,
     items |-> s, err |-> err, save |-> FALSE]

\* A command that calls saveTodos whatever the operation returned.
CalledSaveAlways(core, num, index, text, s, err) ==
    [core |-> core, index |-> index, text |-> text, num |-> num,
     numeric |-> TRUE, items |-> s, err |-> err, save |-> TRUE]

\* A command that has called the operation core of the list: saveTodos
\* follows when the operation returned no error.
Called(core, num, index, text, s, err) ==
    [core |-> core, index |-> index, text |-> text, num |-> num,
     numeric |-> TRUE, items |-> s, err |-> err, save |-> err = Nil]

\* A command whose number is not one.
BadNumber(s) == [Refused(s, ErrNumber) EXCEPT !.numeric = FALSE]

\* A command that ends on its other argument, after it read the number.
RefusedAt(s, num, err) == [Refused(s, err) EXCEPT !.num = num, !.numeric = TRUE]

\* The case of the switch for args on the list s, of the commands a mode has.
Run(commands, args, s) ==
    LET cmd == args[1]
        n == Atoi(args[2])
        index == ItemIndex(n.num)
        rest == Join(SubSeq(args, 3, Len(args)))
    IN  IF cmd \notin commands THEN Refused(s, ErrUnknown)
        ELSE IF cmd = "clear"
        THEN [Called("ClearCompleted", 0, 0, "", ClearCompletedItems(s), Nil)
                 EXCEPT !.numeric = FALSE]
        ELSE IF Len(args) < 2 THEN Refused(s, ErrMissing)
        ELSE IF cmd = "add"
        THEN LET text == Join(SubSeq(args, 2, Len(args)))
             IN  [Called("Add", 0, 0, text, AddItems(s, text), AddErr(s, text))
                     EXCEPT !.numeric = FALSE]
        ELSE IF cmd \in {"edit", "priority", "due", "tag", "untag"} /\ Len(args) < 3
        THEN Refused(s, ErrMissing)
        ELSE IF n.err THEN BadNumber(s)
        ELSE CASE cmd = "complete" ->
                    Called("Complete", n.num, index, "", CompleteItems(s, index),
                           RangeErr(s, index))
               [] cmd = "uncomplete" ->
                    Called("Uncomplete", n.num, index, "",
                           UncompleteItems(s, index), RangeErr(s, index))
               [] cmd = "delete" ->
                    Called("Delete", n.num, index, "", DeleteItems(s, index),
                           RangeErr(s, index))
               [] cmd = "edit" ->
                    Called("Edit", n.num, index, rest, EditItems(s, index, rest),
                           EditErr(s, index, rest))
               [] cmd = "priority" ->
                    Called("SetPriority", n.num, index, args[3],
                           SetPriorityItems(s, index, ParsePriority(Chars(args[3]))),
                           RangeErr(s, index))
               [] cmd = "due" ->
                    IF ParseDate(args[3]).err THEN RefusedAt(s, n.num, ErrDate)
                    ELSE Called("SetDueDate", n.num, index, args[3],
                                SetDueDateItems(s, index, ParseDate(args[3]).date),
                                RangeErr(s, index))
               [] cmd = "tag" ->
                    Called("AddTag", n.num, index, args[3],
                           AddTagItems(s, index, args[3]), AddTagErr(s, index, args[3]))
               [] cmd = "untag" ->
                    Called("RemoveTag", n.num, index, args[3],
                           RemoveTagItems(s, index, args[3]),
                           RemoveTagErr(s, index, args[3]))

\* todoList after main has made it and, if the file exists, loaded it.
MainLoad(data) == IF data = NoFile THEN NewList ELSE LoadItems(data, NewList)
MainLoadErr(data) == IF data = NoFile THEN Nil ELSE UnmarshalErr(data)

\* What a command leaves in out: the command, what it called, the file
\* before it, whether saveTodos was called, whether it wrote the file, and
\* the exit status
\* (-1 while the program runs on).
Outcome(args, r, wrote, exit) ==
    [cmd |-> args[1], core |-> r.core, numeric |-> r.numeric, file |-> file,
     saved |-> r.save, wrote |-> wrote, exit |-> exit]

\* One run of the program with a command: the list is loaded, the command
\* runs on it, the list is saved if the command succeeded, and the program
\* exits; ok tells whether os.WriteFile succeeds.
Batch(args, ok) ==
    /\ ~session
    /\ MainLoadErr(file) = Nil
    /\ LET r == Run(BatchCommands, args, MainLoad(file))
       IN  /\ Size(r.items) <= MaxSize
           /\ items' = r.items
           /\ file' = IF r.save /\ ok THEN Marshal(r.items) ELSE file
           /\ pre' = MainLoad(file)
           /\ last' = Call("main", r.index, r.text, r.num, r.err, 0)
           /\ out' = Outcome(args, r, r.save /\ ok,
                             IF r.err # Nil \/ (r.save /\ ~ok) THEN 1 ELSE 0)
    /\ UNCHANGED <<now, loaded, session, procs, held>>

\* The program is started with -i: the list is loaded and runInteractive
\* prompts for commands.
StartInteractive ==
    /\ ~session
    /\ MainLoadErr(file) = Nil
    /\ items' = MainLoad(file)
    /\ session' = TRUE
    /\ UNCHANGED <<now, pre, last, file, loaded, out, procs, held>>

\* One command of the interactive loop: after an error the loop goes on,
\* after a save that fails saveTodos ends the program.
Interactive(args, ok) ==
    /\ session
    /\ LET r == Run(InteractiveCommands, args, items)
       IN  /\ Size(r.items) <= MaxSize
           /\ items' = r.items
           /\ file' = IF r.save /\ ok THEN Marshal(r.items) ELSE file
           /\ pre' = items
           /\ last' = Call("runInteractive", r.index, r.text, r.num, r.err, 0)
           /\ out' = Outcome(args, r, r.save /\ ok,
                             IF r.save /\ ~ok THEN 1 ELSE -1)
           /\ session' = ~(r.save /\ ~ok)
    /\ UNCHANGED <<now, loaded, procs, held>>

\* quit, exit or the end of the input.
Quit ==
    /\ session
    /\ session' = FALSE
    /\ UNCHANGED <<items, now, pre, last, file, loaded, out, procs, held>>

\* Item numbers given: below, at and above the numbers of a list of up to
\* two items, and a word that is no number.
NumArgs == {"-1", "0", "1", "2", "3", "x"}

\* Command lines of the commands that take an item number.
NumberedArgs ==
    {<<cmd, n>> : cmd \in {"complete", "uncomplete", "delete"}, n \in NumArgs}
    \cup {<<"edit", n, "Task", "2">> : n \in NumArgs}
    \cup {<<cmd, n, "work">> : cmd \in {"tag", "untag"}, n \in NumArgs}
    \cup {<<"priority", n, "high">> : n \in NumArgs}
    \cup {<<"due", n, "2024-01-01">> : n \in NumArgs}

\* Command lines given to main: "" is an argument the shell can pass.
BatchArgs ==
    NumberedArgs
    \cup {<<"add", "Task", "1">>, <<"add", "Task", "2">>, <<"add">>, <<"clear">>,
          <<"complete">>, <<"edit", "1">>, <<"edit", "1", "">>,
          <<"due", "1", "soon">>}

\* Input lines given to runInteractive, as strings.Fields splits them: no
\* field is empty.
InteractiveArgs ==
    NumberedArgs
    \cup {<<"add", "Task", "1">>, <<"add", "Task", "2">>, <<"add">>, <<"clear">>,
          <<"complete">>, <<"edit", "1">>}

(***************************************************************************)
(* Runs of the program that share the file. A run of `todo add <text>` is   *)
(* three steps: main loads the list, Add changes it, saveTodos writes it.   *)
(* No step takes a lock, so the steps of two runs interleave in any order;  *)
(* os.ReadFile and os.WriteFile are taken as one step each.                 *)
(***************************************************************************)
\* A save that reads the file again and keeps the items the list lacks.
SavedDataMerged(s, data) ==
    LET old == MainLoad(data)
        kept == SelectSeq(old, LAMBDA item :
                    \A k \in 1..Len(s) : s[k].Text # item.Text)
    IN  Marshal(kept \o s)

\* The bytes os.WriteFile leaves in the file: the encoding of the list,
\* whatever the file held.
SavedData(s, data) == Marshal(s)

\* procs with the run p replaced.
WithRun(p, r) == [procs EXCEPT !.run[p] = r]

\* main makes the list and loads the file if it exists; a failed Load ends
\* the run with status 1.
RunLoad(p) ==
    /\ procs.run[p].pc = "start"
    /\ procs' = WithRun(p,
           [procs.run[p] EXCEPT
               !.pc = IF MainLoadErr(file) = Nil THEN "loaded" ELSE "exit",
               !.list = MainLoad(file),
               !.err = MainLoadErr(file),
               !.seen = procs.writes])
    /\ UNCHANGED <<items, now, pre, last, file, loaded, out, session, held>>

\* The command add: Add on the loaded list; its error ends the run with
\* status 1.
RunAdd(p, text) ==
    /\ procs.run[p].pc = "loaded"
    /\ procs' = WithRun(p,
           [procs.run[p] EXCEPT
               !.pc = IF AddErr(procs.run[p].list, text) = Nil
                      THEN "changed" ELSE "exit",
               !.list = AddItems(procs.run[p].list, text),
               !.text = text,
               !.err = AddErr(procs.run[p].list, text)])
    /\ UNCHANGED <<items, now, pre, last, file, loaded, out, session, held>>

\* saveTodos: Save writes the file (ok) or fails, and the run ends.
RunSave(p, ok) ==
    /\ procs.run[p].pc = "changed"
    /\ file' = IF ok THEN SavedData(procs.run[p].list, file) ELSE file
    /\ procs' = [run |-> [procs.run EXCEPT
                     ![p].pc = "exit",
                     ![p].err = IF ok THEN Nil ELSE ErrWrite,
                     ![p].wrote = IF ok THEN procs.writes + 1 ELSE 0],
                 writes |-> IF ok THEN procs.writes + 1 ELSE procs.writes]
    /\ UNCHANGED <<items, now, pre, last, loaded, out, session, held>>

\* The program is run once more.
RunAgain(p) ==
    /\ procs.run[p].pc = "exit"
    /\ procs.writes < MaxWrites
    /\ procs' = WithRun(p, [Run0 EXCEPT !.seen = procs.writes])
    /\ UNCHANGED <<items, now, pre, last, file, loaded, out, session, held>>

(***************************************************************************)
(* Slices. An Item holds its tags in a slice: a pointer into an array, a    *)
(* length and a capacity. Copying an Item, as the queries do when they      *)
(* append it to their results, copies the slice and not the array, so the   *)
(* copy and the item of the list point into the same array until append     *)
(* gives the item of the list a new one. The operations below are those of  *)
(* List with the arrays tracked in held.                                    *)
(***************************************************************************)
\* The capacity append gives a slice of strings that has outgrown cap.
Grow(cap) == IF cap = 0 THEN 1 ELSE 2 * cap

\* An array of cap strings that starts with tags; the rest is zero.
ArrayOf(tags, cap) == [j \in 1..cap |-> IF j <= Len(tags) THEN tags[j] ELSE ""]

\* Add: NewItem gives the new item the slice []string{}, of capacity 0.
AddTracked(text) ==
    /\ Size(AddItems(items, text)) <= MaxSize
    /\ items' = AddItems(items, text)
    /\ held' = IF AddErr(items, text) # Nil THEN held
               ELSE [held EXCEPT !.caps = Append(@, 0),
                                 !.arrays = Append(@, <<>>)]
    /\ UNCHANGED <<now, pre, last, file, loaded, out, session, procs>>

\* The results with those that point into the array of item k given the
\* array for themselves: the item of the list gets a new one.
Detached(results, k) ==
    [j \in 1..Len(results) |->
        IF results[j].src # k THEN results[j]
        ELSE [results[j] EXCEPT
                 !.src = 0,
                 !.tags = SubSeq(held.arrays[k], 1, Len(results[j].item.Tags))]]

\* The memory after append(l.Items[index].Tags, tag): the tag is written
\* behind the slice where the array has room, and else into a new array
\* that the items copied before do not point into.
AppendTag(index, tag) ==
    LET k == index + 1
        n == Len(items[k].Tags)
    IN  IF n < held.caps[k]
        THEN [held EXCEPT !.arrays[k][n + 1] = tag]
        ELSE [caps |-> [held.caps EXCEPT ![k] = Grow(@)],
              arrays |-> [held.arrays EXCEPT
                             ![k] = ArrayOf(Append(items[k].Tags, tag),
                                            Grow(held.caps[k]))],
              results |-> Detached(held.results, k)]

AddTagTracked(index, tag) ==
    /\ Size(AddTagItems(items, index, tag)) <= MaxSize
    /\ items' = AddTagItems(items, index, tag)
    /\ held' = IF AddTagErr(items, index, tag) # Nil THEN held
               ELSE AppendTag(index, tag)
    /\ UNCHANGED <<now, pre, last, file, loaded, out, session, procs>>

\* The memory after append(tags[:i], tags[i+1:]...): the tags behind i move
\* one place down in the array they are in, and the place of the last one
\* keeps what it held.
CutTag(index, tag) ==
    LET k == index + 1
        tags == items[k].Tags
        i == CHOOSE j \in 1..Len(tags) :
                 /\ tags[j] = tag
                 /\ \A h \in 1..(j - 1) : tags[h] # tag
    IN  [held EXCEPT !.arrays[k] =
            [j \in 1..Len(@) |->
                IF i <= j /\ j < Len(tags) THEN @[j + 1] ELSE @[j]]]

RemoveTagTracked(index, tag) ==
    /\ items' = RemoveTagItems(items, index, tag)
    /\ held' = IF RemoveTagErr(items, index, tag) # Nil THEN held
               ELSE CutTag(index, tag)
    /\ UNCHANGED <<now, pre, last, file, loaded, out, session, procs>>

\* SetPriority and SetDueDate assign to fields of the item of the list.
SetPriorityTracked(index, priority) ==
    /\ Size(SetPriorityItems(items, index, priority)) <= MaxSize
    /\ items' = SetPriorityItems(items, index, priority)
    /\ UNCHANGED <<now, pre, last, file, loaded, out, session, procs, held>>

SetDueDateTracked(index, dueDate) ==
    /\ Size(SetDueDateItems(items, index, dueDate)) <= MaxSize
    /\ items' = SetDueDateItems(items, index, dueDate)
    /\ UNCHANGED <<now, pre, last, file, loaded, out, session, procs, held>>

\* The positions in s of the items of results, which a query copied from s.
Hits(s, results) ==
    SelectSeq([k \in 1..Len(s) |-> k],
              LAMBDA k : \E j \in 1..Len(results) : results[j] = s[k])

\* The caller keeps what a query returned: copies of the items at hits, each
\* with a slice that points into the array of the item it was copied from.
Keep(hits) ==
    /\ held.results = <<>>
    /\ hits # <<>>
    /\ held' = [held EXCEPT !.results =
                   [j \in 1..Len(hits) |->
                       [item |-> items[hits[j]], src |-> hits[j],
                        tags |-> <<>>]]]
    /\ UNCHANGED <<items, now, pre, last, file, loaded, out, session, procs>>

SearchKept(query) ==
    Keep(Hits(items, SearchItems(items, query)))

FilterByPriorityKept(priority) ==
    Keep(Hits(items, FilterByPriorityItems(items, priority)))

FilterByTagKept(tag) ==
    Keep(Hits(items, FilterByTagItems(items, tag)))

GetOverdueKept ==
    Keep(Hits(items, OverdueItems(items, now)))

\* The caller lets go of the results.
Release ==
    /\ held.results # <<>>
    /\ held' = [held EXCEPT !.results = <<>>]
    /\ UNCHANGED <<items, now, pre, last, file, loaded, out, session, procs>>

\* What the caller reads in the result r it holds: the fields of the copy,
\* and as its tags what the array behind its slice holds now.
Seen(r) ==
    [r.item EXCEPT !.Tags = IF r.src = 0 THEN r.tags
                            ELSE SubSeq(held.arrays[r.src], 1, Len(r.item.Tags))]

(***************************************************************************)
(* Specifications.                                                         *)
(***************************************************************************)
\* The caller is done with the result of the last call.
Forget ==
    /\ last # NoCall
    /\ pre' = <<>>
    /\ last' = NoCall
    /\ out' = <<>>
    /\ UNCHANGED <<items, now, file, loaded, session, procs, held>>

\* Any sequence of calls of the operations of one List, at one instant.
Next ==
    \/ last = NoCall /\ CoreNext
    \/ Forget

Spec == Init /\ [][Next]_vars

\* A list is built by any sequence of calls, saved, and loaded into a second
\* list: the list is left alone once the file is written.
PersistNext ==
    \/ last = NoCall /\ file = NoFile /\ CoreNext
    \/ last = NoCall /\ \E ok \in BOOLEAN : Save(ok)
    \/ last = NoCall /\ Load
    \/ Forget

SpecPersist == Init /\ [][PersistNext]_vars

\* Time passes between two calls.
Tick ==
    /\ now < MaxNow
    /\ now' = now + 1
    /\ UNCHANGED <<items, pre, last, file, loaded, out, session, procs, held>>

\* Items are made at different instants, marked and edited.
ClockNext ==
    \/ last = NoCall /\ Tick
    \/ last = NoCall /\ Len(items) < MaxClockLen
                     /\ \E text \in {"Task 1", "Task 2"} : Add(text)
    \/ last = NoCall /\ \E index \in Indices : Complete(index)
    \/ last = NoCall /\ \E index \in Indices : SetPriority(index, PriorityHigh)
    \/ last = NoCall /\ \E index \in Indices : SetDueDate(index, now)
    \/ last = NoCall /\ \E index \in Indices : AddTag(index, "work")
    \/ last = NoCall /\ \E index \in Indices, newText \in NewTexts :
                            Edit(index, newText)
    \/ Forget

SpecClock == Init /\ [][ClockNext]_vars

\* Any sequence of calls of Add and Edit with any of the texts.
AddEditNext ==
    \/ last = NoCall /\ \E text \in Texts : Add(text)
    \/ last = NoCall /\ \E index \in Indices, newText \in Texts :
                            Edit(index, newText)
    \/ Forget

SpecAddEdit == Init /\ [][AddEditNext]_vars

\* Any sequence of calls of the operations other than Edit.
NoEditNext ==
    \/ last = NoCall /\ \E text \in Texts : Add(text)
    \/ last = NoCall /\ \E index \in Indices : Complete(index)
    \/ last = NoCall /\ \E index \in Indices : Uncomplete(index)
    \/ last = NoCall /\ \E index \in Indices : Delete(index)
    \/ last = NoCall /\ \E index \in Indices, priority \in Priorities :
                            SetPriority(index, priority)
    \/ last = NoCall /\ \E index \in Indices, dueDate \in Dates :
                            SetDueDate(index, dueDate)
    \/ last = NoCall /\ \E index \in Indices, tag \in TagNames : AddTag(index, tag)
    \/ last = NoCall /\ \E index \in Indices, tag \in TagNames :
                            RemoveTag(index, tag)
    \/ last = NoCall /\ ClearCompleted
    \/ last = NoCall /\ Sort
    \/ Forget

SpecNoEdit == Init /\ [][NoEditNext]_vars

\* Any sequence of calls of the operations and of the queries.
QueryNext ==
    \/ last = NoCall /\ CoreNext
    \/ last = NoCall /\ GetStats
    \/ last = NoCall /\ \E query \in Queries : Search(query)
    \/ Forget

SpecQuery == Init /\ [][QueryNext]_vars

\* Items are made, given due dates before, at and after the instant of the
\* call, and completed, and GetOverdue is called as time passes.
OverdueNext ==
    \/ last = NoCall /\ Tick
    \/ last = NoCall /\ Len(items) < MaxClockLen
                     /\ \E text \in {"Task 1", "Task 2"} : Add(text)
    \/ last = NoCall /\ \E index \in Indices : Complete(index)
    \/ last = NoCall /\ \E index \in Indices, dueDate \in Dates :
                            SetDueDate(index, dueDate)
    \/ last = NoCall /\ GetOverdue
    \/ Forget

SpecOverdue == Init /\ [][OverdueNext]_vars

\* The string w with each choice of its letters put in lower case.
CaseVariants(w) ==
    {[k \in 1..Len(w) |-> IF k \in lower THEN ToLowerChar(w[k]) ELSE w[k]] :
        lower \in SUBSET (1..Len(w))}

\* Strings given to ParsePriority: the words it knows and words it does not
\* know (the empty one, beginnings and extensions of known words, a known
\* word behind a space, the name of no priority), in every mix of cases.
PriorityStrings ==
    UNION {CaseVariants(w) :
        w \in {WordHigh, WordH, WordMedium, WordMed, WordM, WordLow, WordL,
               <<>>, <<"H", "I">>, <<"M", "E">>, <<"L", "O">>,
               <<"L", "O", "W", "E", "R">>, <<" ", "L">>,
               <<"N", "O", "N", "E">>, <<"X">>}}

\* ParsePriority is called with one string after another.
ParseNext ==
    \/ last = NoCall /\ \E s \in PriorityStrings : CallParsePriority(s)
    \/ Forget

SpecParse == Init /\ [][ParseNext]_vars

\* A list is changed and saved again and again, the file is also written by
\* another program, and the second list loads the file again and again.
ReloadNext ==
    \/ last = NoCall /\ \E text \in {"Task 1", "Task 2"} : Add(text)
    \/ last = NoCall /\ \E index \in Indices : Delete(index)
    \/ last = NoCall /\ \E index \in Indices : SetDueDate(index, 1)
    \/ last = NoCall /\ \E index \in Indices : AddTag(index, "work")
    \/ last = NoCall /\ \E ok \in BOOLEAN : Save(ok)
    \/ last = NoCall /\ \E data \in {Garbage, MistypedFile} : WriteFile(data)
    \/ last = NoCall /\ Load
    \/ Forget

SpecReload == Init /\ [][ReloadNext]_vars

\* The program is run with one command after another, or with -i and
\* commands at its prompt, one run at a time.
CliNext ==
    \/ last = NoCall /\ \E args \in BatchArgs, ok \in BOOLEAN : Batch(args, ok)
    \/ last = NoCall /\ StartInteractive
    \/ last = NoCall /\ \E args \in InteractiveArgs, ok \in BOOLEAN :
                            Interactive(args, ok)
    \/ last = NoCall /\ Quit
    \/ Forget

SpecCli == Init /\ [][CliNext]_vars

\* Two users run `todo add <text>` again and again on the same file, with
\* nothing to keep the runs apart.
RaceNext ==
    \/ \E p \in {1, 2} : RunLoad(p)
    \/ \E p \in {1, 2}, text \in {"Task 1", "Task 2", "Task 3"} : RunAdd(p, text)
    \/ \E p \in {1, 2}, ok \in BOOLEAN : RunSave(p, ok)
    \/ \E p \in {1, 2} : RunAgain(p)

SpecRace == Init /\ [][RaceNext]_vars

\* Items are made and tagged, a query is called and its result kept, and
\* the list is changed while the caller holds the result.
SnapshotNext ==
    \/ Tick
    \/ \E text \in {"Task 1", "Task 2"} : AddTracked(text)
    \/ \E index \in 0..(Len(items) - 1), tag \in {"work", "home"} :
           AddTagTracked(index, tag)
    \/ \E index \in 0..(Len(items) - 1), tag \in {"work", "home"} :
           RemoveTagTracked(index, tag)
    \/ \E index \in 0..(Len(items) - 1) : SetPriorityTracked(index, PriorityHigh)
    \/ \E index \in 0..(Len(items) - 1) : SetDueDateTracked(index, 1)
    \/ \E query \in {"K 2", "o"} : SearchKept(query)
    \/ FilterByPriorityKept(PriorityMedium)
    \/ \E tag \in {"work", "home"} : FilterByTagKept(tag)
    \/ GetOverdueKept
    \/ Release

SpecSnapshot == Init /\ [][SnapshotNext]_vars

(***************************************************************************)
(* Properties. They are stated on pre, last and the lists in their own     *)
(* words: none of them uses an operator that computes an operation.        *)
(***************************************************************************)
\* index is a position of s, in Go's numbering.
ValidIndex(index, s) == 0 <= index /\ index < Len(s)

\* The item of s at Go's position index.
At(s, index) == s[index + 1]

\* No completed item precedes an incomplete one.
Partitioned(s) ==
    \A a, b \in 1..Len(s) : (a < b /\ s[a].Done) => s[b].Done

Pending(item) == item.Done = FALSE
Finished(item) == item.Done = TRUE

\* The text t is the text of an item of s.
HasText(s, t) == \E k \in 1..Len(s) : s[k].Text = t

\* The tag t is among tags.
Carries(tags, t) == \E k \in 1..Len(tags) : tags[k] = t

\* C1: Complete(i) with 0 <= i < length returns no error, the item that was
\* at position i is in the list with done = true, and no completed item
\* precedes an incomplete one, whatever the order of the list was.
C1_CompleteMarksDoneAndPartitions ==
    (last.op = "Complete" /\ ValidIndex(last.index, pre)) =>
        /\ last.err = Nil
        /\ \E k \in 1..Len(items) :
               items[k] = [At(pre, last.index) EXCEPT !.Done = TRUE]
        /\ Len(items) = Len(pre)
        /\ Partitioned(items)

\* Complete has returned from a list of three items in which a completed item
\* preceded an incomplete one, called on an incomplete item.
C1_Witness ==
    /\ last.op = "Complete"
    /\ Len(pre) = 3
    /\ ~Partitioned(pre)
    /\ ValidIndex(last.index, pre)
    /\ ~At(pre, last.index).Done
    /\ last.err = Nil

IndexOps ==
    {"Complete", "Uncomplete", "Delete", "Edit", "SetPriority", "SetDueDate",
     "AddTag", "RemoveTag"}

\* C2: each operation that takes an index, called with index < 0 or
\* index >= length, returns an error and leaves the list as it was.
C2_OutOfRangeFailsWithoutEffect ==
    (last.op \in IndexOps /\ (last.index < 0 \/ last.index >= Len(pre))) =>
        /\ last.err # Nil
        /\ items = pre

\* RemoveTag has been called with index = length on a list of two items that
\* carries a tag.
C2_Witness ==
    /\ last.op = "RemoveTag"
    /\ Len(pre) = 2
    /\ last.index = Len(pre)
    /\ \E k \in 1..Len(pre) : Carries(pre[k].Tags, last.text)
    /\ last.err # Nil

\* C3: Add(t) on a list that holds an item with text t returns an error and
\* leaves the list as it was.
C3_AddDuplicateFails ==
    (last.op = "Add" /\ HasText(pre, last.text)) =>
        /\ last.err # Nil
        /\ items = pre

\* Add(t) has been called on a list whose last item, of two, has text t: the
\* second Add(t) of two in a row.
C3_Witness ==
    /\ last.op = "Add"
    /\ Len(pre) = 2
    /\ pre[Len(pre)].Text = last.text
    /\ last.err # Nil
    /\ Len(items) = 2

\* C4: Delete(i) with a valid index removes the item at position i: the
\* length goes down by 1, the items before i stay where they are, each item
\* after i moves one position down, and no remaining item changes.
C4_DeleteRemovesExactlyOne ==
    (last.op = "Delete" /\ ValidIndex(last.index, pre)) =>
        /\ last.err = Nil
        /\ Len(items) = Len(pre) - 1
        /\ \A j \in 0..(Len(pre) - 1) :
               /\ j < last.index => At(items, j) = At(pre, j)
               /\ j > last.index => At(items, j - 1) = At(pre, j)

\* Delete(0) has returned from a list of three items, the last of them with
\* an attribute set.
C4_Witness ==
    /\ last.op = "Delete"
    /\ last.index = 0
    /\ Len(pre) = 3
    /\ Len(items) = 2
    /\ pre[1] # pre[3]
    /\ pre[2] # pre[3]
    /\ (pre[3].Tags # <<>> \/ pre[3].DueDate # <<>>)

\* C5: ClearCompleted never fails, removes the items with done = true and no
\* other, returns how many they were, and leaves the others with their fields
\* and in their order.
C5_ClearCompletedRemovesDone ==
    last.op = "ClearCompleted" =>
        /\ last.err = Nil
        /\ last.count = Cardinality({k \in 1..Len(pre) : pre[k].Done})
        /\ Len(items) = Len(pre) - last.count
        /\ items = SelectSeq(pre, Pending)

\* ClearCompleted has returned from a list of four items that began with a
\* completed item followed by an incomplete one.
C5_Witness ==
    /\ last.op = "ClearCompleted"
    /\ Len(pre) = 4
    /\ pre[1].Done
    /\ ~pre[2].Done
    /\ last.count >= 1
    /\ Len(items) >= 2

\* C6: Sort keeps the items, puts the incomplete ones before the completed
\* ones, keeps the order among the incomplete and among the completed, and a
\* second Sort changes nothing (the list Sort leaves is one Sort leaves alone).
C6_SortStableIdempotent ==
    last.op = "Sort" =>
        /\ Len(items) = Len(pre)
        /\ Partitioned(items)
        /\ SelectSeq(items, Pending) = SelectSeq(pre, Pending)
        /\ SelectSeq(items, Finished) = SelectSeq(pre, Finished)
        /\ Partitioned(pre) => items = pre

\* Sort has returned from a list of two completed items followed by two
\* incomplete ones.
C6_Witness ==
    /\ last.op = "Sort"
    /\ Len(pre) = 4
    /\ pre[1].Done /\ pre[2].Done /\ ~pre[3].Done /\ ~pre[4].Done
    /\ pre[1] # pre[2]
    /\ pre[3] # pre[4]

\* C7: a list reached through the operations, saved, and loaded into a list
\* that NewList made: Load returns no error and the list it fills has the
\* length of the saved one and, position by position, the same text, done
\* flag, priority, due date or absence of one, and tags. (Under SpecPersist
\* items is the list that was saved: no operation follows the save.)
C7_SaveLoadRoundTrip ==
    (last.op = "Load" /\ pre = NewList /\ file # NoFile) =>
        /\ last.err = Nil
        /\ Len(loaded) = Len(items)
        /\ \A k \in 1..Len(items) :
               /\ loaded[k].Text = items[k].Text
               /\ loaded[k].Done = items[k].Done
               /\ loaded[k].Priority = items[k].Priority
               /\ loaded[k].DueDate = items[k].DueDate
               /\ loaded[k].Tags = items[k].Tags

\* Load has filled an empty list from the file of a saved list that holds a
\* completed item behind an incomplete one, a tag, a due date, and an item
\* with neither.
C7_Witness ==
    /\ last.op = "Load"
    /\ last.err = Nil
    /\ pre = NewList
    /\ Len(items) = 2
    /\ Len(loaded) = 2
    /\ ~items[1].Done /\ items[2].Done
    /\ \E k \in 1..2 : items[k].Tags # <<>> /\ items[k].DueDate # <<>>
    /\ \E k \in 1..2 : items[k].Tags = <<>> /\ items[k].DueDate = <<>>

\* The tags of each item of s are pairwise distinct.
TagsDistinct(s) ==
    \A k \in 1..Len(s) :
        \A a, b \in 1..Len(s[k].Tags) : a # b => s[k].Tags[a] # s[k].Tags[b]

\* C8: the tags of every item stay pairwise distinct; AddTag(i, tag) on an
\* item that carries tag returns an error and leaves its tags as they were,
\* and otherwise appends tag behind the tags of the item, kept in their order.
C8_TagsDistinct ==
    /\ TagsDistinct(items)
    /\ (last.op = "AddTag" /\ ValidIndex(last.index, pre)) =>
           IF Carries(At(pre, last.index).Tags, last.text)
           THEN /\ last.err # Nil
                /\ At(items, last.index).Tags = At(pre, last.index).Tags
           ELSE /\ last.err = Nil
                /\ At(items, last.index).Tags
                       = At(pre, last.index).Tags \o <<last.text>>

\* AddTag has been called with the tag an item of two tags carries as its
\* first.
C8_Witness ==
    /\ last.op = "AddTag"
    /\ ValidIndex(last.index, pre)
    /\ Len(At(pre, last.index).Tags) = 2
    /\ At(pre, last.index).Tags[1] = last.text
    /\ last.err = ErrTagExists

\* C9: RemoveTag(i, tag) with a valid index on an item that carries tag
\* returns no error, the item no longer carries tag, its other tags are in
\* the order they had, and no other item changes; on an item that does not
\* carry tag it returns an error and changes nothing.
C9_RemoveTag ==
    (last.op = "RemoveTag" /\ ValidIndex(last.index, pre)) =>
        IF Carries(At(pre, last.index).Tags, last.text)
        THEN /\ last.err = Nil
             /\ Len(items) = Len(pre)
             /\ ~Carries(At(items, last.index).Tags, last.text)
             /\ At(items, last.index).Tags
                    = SelectSeq(At(pre, last.index).Tags, LAMBDA t : t # last.text)
             /\ \A j \in 0..(Len(pre) - 1) :
                    j # last.index => At(items, j) = At(pre, j)
        ELSE /\ last.err # Nil
             /\ items = pre

\* RemoveTag has removed the first of the three tags of an item.
C9_Witness ==
    /\ last.op = "RemoveTag"
    /\ ValidIndex(last.index, pre)
    /\ Len(At(pre, last.index).Tags) = 3
    /\ At(pre, last.index).Tags[1] = last.text
    /\ last.err = Nil

\* C10: Edit(i, newText) with a valid index and newText not empty changes
\* the text of the item at position i and nothing else: not its position,
\* done flag, priority, due date, tags or creation time, and no other item;
\* Edit(i, "") with a valid index returns an error and changes nothing.
C10_EditChangesOnlyText ==
    (last.op = "Edit" /\ ValidIndex(last.index, pre)) =>
        IF last.text # ""
        THEN /\ last.err = Nil
             /\ Len(items) = Len(pre)
             /\ At(items, last.index).Text = last.text
             /\ At(items, last.index).Done = At(pre, last.index).Done
             /\ At(items, last.index).Priority = At(pre, last.index).Priority
             /\ At(items, last.index).DueDate = At(pre, last.index).DueDate
             /\ At(items, last.index).Tags = At(pre, last.index).Tags
             /\ At(items, last.index).CreatedAt = At(pre, last.index).CreatedAt
             /\ \A j \in 0..(Len(pre) - 1) :
                    j # last.index => At(items, j) = At(pre, j)
        ELSE /\ last.err # Nil
             /\ items = pre

\* Edit has changed the text of the first of two items, later than the item
\* was made; the item is tagged and has a priority and a due date set.
C10_Witness ==
    /\ last.op = "Edit"
    /\ last.index = 0
    /\ Len(pre) = 2
    /\ last.err = Nil
    /\ pre[1].Text # last.text
    /\ pre[1].CreatedAt < now
    /\ pre[1].Tags # <<>>
    /\ pre[1].DueDate # <<>>
    /\ pre[2].Done

\* C11: an Add(text) that returns no error makes the list one longer and
\* puts the new item last, behind every item the list held, completed ones
\* too, with done = false, priority Medium, no due date and no tags; the
\* items the list held keep their positions and fields.
C11_AddAppendsDefaultItem ==
    (last.op = "Add" /\ last.err = Nil) =>
        /\ Len(items) = Len(pre) + 1
        /\ items[Len(items)].Text = last.text
        /\ items[Len(items)].Done = FALSE
        /\ items[Len(items)].Priority = PriorityMedium
        /\ items[Len(items)].DueDate = <<>>
        /\ items[Len(items)].Tags = <<>>
        /\ \A k \in 1..Len(pre) : items[k] = pre[k]

\* Add has put a fourth item behind three, of which the first is completed and
\* the others are not.
C11_Witness ==
    /\ last.op = "Add"
    /\ last.err = Nil
    /\ Len(pre) = 3
    /\ pre[1].Done
    /\ ~pre[2].Done
    /\ ~pre[3].Done
    /\ Len(items) = 4
    /\ ~items[4].Done

\* C12: after any sequence of calls of Add and Edit on the list NewList made,
\* with any texts, the empty one too, no item of the list has the empty text.
C12_TextNeverEmpty ==
    \A k \in 1..Len(items) : items[k].Text # ""

\* C13: after any sequence of calls of Add, Complete, Uncomplete, Delete,
\* SetPriority, SetDueDate, AddTag, RemoveTag, ClearCompleted and Sort on the
\* list NewList made, no two items of the list have the same text.
C13_TextsUniqueWithoutEdit ==
    \A a, b \in 1..Len(items) : a # b => items[a].Text # items[b].Text

\* Add has been refused the text of a completed item that is the last of
\* three, behind two incomplete items.
C13_Witness ==
    /\ last.op = "Add"
    /\ last.err # Nil
    /\ Len(items) = 3
    /\ ~items[1].Done /\ ~items[2].Done /\ items[3].Done
    /\ items[3].Text = last.text

\* C16: in every list the operations reach, GetStats returns Total = the
\* number of items, Completed = the number of items with done = true and
\* Pending = the number with done = false, so Total = Completed + Pending,
\* and leaves the list as it was.
C16_StatsCount ==
    last.op = "GetStats" =>
        /\ out.Total = Len(pre)
        /\ out.Completed = Cardinality({k \in 1..Len(pre) : pre[k].Done = TRUE})
        /\ out.Pending = Cardinality({k \in 1..Len(pre) : pre[k].Done = FALSE})
        /\ out.Total = out.Completed + out.Pending
        /\ items = pre

\* GetStats has returned on a list of four items, two completed ones in
\* front of two incomplete ones.
C16_Witness ==
    /\ last.op = "GetStats"
    /\ Len(pre) = 4
    /\ pre[1].Done /\ ~pre[4].Done
    /\ out.Completed = 2
    /\ out.Pending = 2

\* The characters a and b are the same, or the same letter in two cases.
SameLetter(a, b) ==
    \/ a = b
    \/ \E k \in 1..26 : {a, b} = {UpperLetters[k], LowerLetters[k]}

\* The string str contains the string q, letter case ignored.
ContainsIgnoringCase(str, q) ==
    \E offset \in 0..(Len(Chars(str)) - Len(Chars(q))) :
        \A j \in 1..Len(Chars(q)) : SameLetter(Chars(str)[offset + j], Chars(q)[j])

\* The item matches q by its text or by one of its tags.
Matches(item, q) ==
    \/ ContainsIgnoringCase(item.Text, q)
    \/ \E k \in 1..Len(item.Tags) : ContainsIgnoringCase(item.Tags[k], q)

\* C14: Search(query) returns the items whose text contains query, letter
\* case ignored, or that have a tag containing it, each of them once and in
\* the order of the list, and no other item; the list is left as it was.
C14_SearchMatches ==
    last.op = "Search" =>
        /\ out = SelectSeq(pre, LAMBDA item : Matches(item, last.text))
        /\ items = pre

\* Search has returned one item of two: it has two tags that both contain
\* the query, its text does not, and the other item does not match.
C14_Witness ==
    /\ last.op = "Search"
    /\ Len(pre) = 2
    /\ \E k \in 1..2 :
           /\ Len(pre[k].Tags) = 2
           /\ ContainsIgnoringCase(pre[k].Tags[1], last.text)
           /\ ContainsIgnoringCase(pre[k].Tags[2], last.text)
           /\ ~ContainsIgnoringCase(pre[k].Text, last.text)
           /\ out = <<pre[k]>>

\* The item has a due date before the instant t and is not done.
Overdue(item, t) ==
    /\ item.DueDate # <<>>
    /\ item.DueDate[1] < t
    /\ item.Done = FALSE

\* C15: GetOverdue returns, in the order of the list, the items that have a
\* due date before the instant of the call and done = false, and no other:
\* none without a due date, none due at or after that instant, none with
\* done = true; the list is left as it was.
C15_OverdueExactly ==
    last.op = "GetOverdue" =>
        /\ out = SelectSeq(pre, LAMBDA item : Overdue(item, now))
        /\ \A k \in 1..Len(out) :
               /\ out[k].DueDate # <<>>
               /\ ~(out[k].DueDate[1] >= now)
               /\ ~out[k].Done
        /\ items = pre

\* GetOverdue has returned the second of two incomplete items, due before
\* the call, and not the first, due at the instant of the call.
C15_Witness ==
    /\ last.op = "GetOverdue"
    /\ Len(pre) = 2
    /\ pre[1].DueDate = <<now>>
    /\ ~pre[1].Done
    /\ out = <<pre[2]>>

\* The string s is the word w, letter case ignored.
IsWord(s, w) ==
    /\ Len(s) = Len(w)
    /\ \A k \in 1..Len(w) : SameLetter(s[k], w[k])

\* C17: ParsePriority returns a priority for every string and never fails:
\* letter case ignored, High for "HIGH" and "H", Medium for "MEDIUM", "MED"
\* and "M", Low for "LOW" and "L", and Medium for every other string, the
\* empty one too.
C17_ParsePriorityTotal ==
    last.op = "ParsePriority" =>
        /\ last.err = Nil
        /\ out.priority \in {PriorityLow, PriorityMedium, PriorityHigh}
        /\ out.priority =
              IF IsWord(out.input, WordHigh) \/ IsWord(out.input, WordH)
              THEN PriorityHigh
              ELSE IF IsWord(out.input, WordLow) \/ IsWord(out.input, WordL)
                   THEN PriorityLow
                   ELSE PriorityMedium

\* ParsePriority has returned High for a spelling of "HIGH" in mixed case.
C17_Witness ==
    /\ last.op = "ParsePriority"
    /\ out.input = <<"h", "I", "g", "H">>
    /\ out.priority = PriorityHigh

\* The item an object of the file stores: a key the object lacks stores no
\* due date, no tags.
Stored(obj) ==
    [Text |-> obj.Text, Done |-> obj.Done, Priority |-> obj.Priority,
     DueDate |-> IF "DueDate" \in DOMAIN obj THEN <<obj.DueDate>> ELSE <<>>,
     Tags |-> IF "Tags" \in DOMAIN obj THEN obj.Tags ELSE <<>>,
     CreatedAt |-> obj.CreatedAt]

\* C18: after a Load that returns no error the list is the items stored in
\* the file, with the stored fields, whatever the list held before: no item,
\* due date or tag it held before remains.
C18_LoadReplacesContent ==
    (last.op = "Load" /\ last.err = Nil) =>
        /\ Len(loaded) = Len(file.Items)
        /\ \A k \in 1..Len(loaded) : loaded[k] = Stored(file.Items[k])

\* C19: a Load that returns an error (no file, a file that cannot be read, a
\* file that is not the encoding of a list) leaves the list as it was.
C19_FailedLoadLeavesList ==
    (last.op = "Load" /\ last.err # Nil) => loaded = pre

IndexCommands ==
    {"complete", "uncomplete", "delete", "edit", "priority", "due", "tag", "untag"}

\* A command of the program has been given an item number, which is in
\* last.num.
GivenNumber ==
    /\ last.op \in {"main", "runInteractive"}
    /\ out.cmd \in IndexCommands
    /\ out.numeric

\* The item the rendered list pre shows behind the number n.
Numbered(n) ==
    (CHOOSE r \in {Rendered(pre)[k] : k \in 1..Len(pre)} : r.number = n).item

\* What the command cmd does to the item numbered n.
ActsOn(cmd, n) ==
    CASE cmd = "complete" ->
            /\ Len(items) = Len(pre)
            /\ \E k \in 1..Len(items) : items[k] = [Numbered(n) EXCEPT !.Done = TRUE]
      [] cmd = "uncomplete" ->
            /\ Len(items) = Len(pre)
            /\ \E k \in 1..Len(items) : items[k] = [Numbered(n) EXCEPT !.Done = FALSE]
      [] cmd = "delete" ->
            items = SubSeq(pre, 1, n - 1) \o SubSeq(pre, n + 1, Len(pre))
      [] cmd = "edit" ->
            items = [pre EXCEPT ![n] = [Numbered(n) EXCEPT !.Text = last.text]]
      [] cmd = "priority" ->
            \E p \in Priorities :
                items = [pre EXCEPT ![n] = [Numbered(n) EXCEPT !.Priority = p]]
      [] cmd = "due" ->
            \E d \in Dates :
                items = [pre EXCEPT ![n] = [Numbered(n) EXCEPT !.DueDate = <<d>>]]
      [] cmd = "tag" ->
            items = [pre EXCEPT ![n] =
                        [Numbered(n) EXCEPT !.Tags = Append(@, last.text)]]
      [] cmd = "untag" ->
            items = [pre EXCEPT ![n] =
                        [Numbered(n) EXCEPT
                            !.Tags = SelectSeq(@, LAMBDA t : t # last.text)]]

FileStores(s) ==
    /\ "Items" \in DOMAIN file
    /\ Len(file.Items) = Len(s)
    /\ \A k \in 1..Len(s) : Stored(file.Items[k]) = s[k]

\* C21: on the command line and at the prompt, a command that changes the
\* list and whose operation returns no error calls the save of the whole
\* list before it ends, and one whose operation returns an error does not;
\* so at a prompt that follows a save that succeeded the file holds the list
\* in memory.
C21_SaveAfterSuccessOnly ==
    (last.op \in {"main", "runInteractive"} /\ out.core # "") =>
        /\ last.err = Nil =>
               /\ out.saved
               /\ out.wrote => FileStores(items)
               /\ ~out.wrote => (file = out.file /\ out.exit = 1)
        /\ last.err # Nil =>
               /\ ~out.saved
               /\ ~out.wrote
               /\ file = out.file
        /\ (last.op = "runInteractive" /\ session /\ out.saved) =>
               FileStores(items)

\* At the prompt, a command has changed a list of two items and the file,
\* which held another list, holds the new one.
C21_Witness ==
    /\ last.op = "runInteractive"
    /\ session
    /\ out.core \in {"Edit", "Complete"}
    /\ last.err = Nil
    /\ Len(items) = 2
    /\ out.file # NoFile
    /\ out.file # file
    /\ out.wrote
    /\ FileStores(items)

\* C22: every command main accepts is accepted at the prompt too, and calls
\* the same operation of the list.
C22_SameCommandsAtPrompt ==
    (last.op = "runInteractive" /\ out.cmd \in BatchCommands) =>
        last.err # ErrUnknown

\* C23: at the prompt every error of a command (of validation, of range, or
\* of writing the file) is reported and the loop prompts again: no command
\* that fails ends the session.
C23_PromptSurvivesErrors ==
    last.op = "runInteractive" => session

\* C24: Uncomplete(i) with a valid index sets done = false on the item at
\* position i and sorts: no completed item precedes an incomplete one, the
\* incomplete and the completed items keep their order, and an item that
\* was behind the incomplete items, where Complete puts it, stays behind all
\* of them, whatever position it had before it was completed.
C24_UncompleteResorts ==
    (last.op = "Uncomplete" /\ ValidIndex(last.index, pre)) =>
        LET flipped == [pre EXCEPT ![last.index + 1].Done = FALSE]
            pending == SelectSeq(pre, Pending)
        IN  /\ last.err = Nil
            /\ Partitioned(items)
            /\ SelectSeq(items, Pending) = SelectSeq(flipped, Pending)
            /\ SelectSeq(items, Finished) = SelectSeq(flipped, Finished)
            /\ (Partitioned(pre) /\ At(pre, last.index).Done) =>
                   /\ \A k \in 1..Len(pending) : items[k] = pending[k]
                   /\ items[Len(pending) + 1] = At(flipped, last.index)

\* Uncomplete has been called on the first of two completed items that
\* follow two incomplete ones: it is now the third item.
C24_Witness ==
    /\ last.op = "Uncomplete"
    /\ Len(pre) = 4
    /\ ~pre[1].Done /\ ~pre[2].Done /\ pre[3].Done /\ pre[4].Done
    /\ last.index = 2
    /\ items[3].Text = pre[3].Text
    /\ ~items[3].Done

\* The texts of the items of s, in their order.
TextsOf(s) == [k \in 1..Len(s) |-> s[k].Text]

\* C25: Add, Delete, Edit, SetPriority, SetDueDate, AddTag and RemoveTag do
\* not sort: the items that were in the list and still are keep their order,
\* also in a list where a completed item precedes an incomplete one.
C25_NoResort ==
    /\ last.op = "Add" => SubSeq(items, 1, Len(pre)) = pre
    /\ (last.op = "Delete" /\ ValidIndex(last.index, pre)) =>
           items = SubSeq(pre, 1, last.index)
                       \o SubSeq(pre, last.index + 2, Len(pre))
    /\ last.op = "Edit" =>
           /\ Len(items) = Len(pre)
           /\ \A k \in 1..Len(pre) : k # last.index + 1 => items[k] = pre[k]
           /\ \A k \in 1..Len(pre) : items[k].Done = pre[k].Done
    /\ last.op \in {"SetPriority", "SetDueDate", "AddTag", "RemoveTag"} =>
           /\ TextsOf(items) = TextsOf(pre)
           /\ \A k \in 1..Len(pre) : items[k].Done = pre[k].Done

\* SetPriority has changed the completed first item of a list whose second
\* item is incomplete.
C25_Witness ==
    /\ last.op = "SetPriority"
    /\ last.err = Nil
    /\ Len(pre) >= 2
    /\ pre[1].Done /\ ~pre[2].Done
    /\ last.index = 0
    /\ items[1].Priority # pre[1].Priority

\* C26: Edit(i, t) with a valid index and t not empty returns no error also
\* when another item has the text t, so two items can have the same text
\* after Add and Edit; an Add of that text is refused all the same.
C26_EditAllowsDuplicate ==
    /\ (last.op = "Edit" /\ ValidIndex(last.index, pre) /\ last.text # "") =>
           /\ last.err = Nil
           /\ At(items, last.index).Text = last.text
    /\ (last.op = "Add" /\ HasText(pre, last.text)) =>
           /\ last.err # Nil
           /\ items = pre

\* Add has been refused the text that two items of the list have.
C26_Witness ==
    /\ last.op = "Add"
    /\ last.err # Nil
    /\ \E a, b \in 1..Len(items) :
           a # b /\ items[a].Text = last.text /\ items[b].Text = last.text

\* C28: Complete(i) on an incomplete item of a list in which every
\* incomplete item precedes every completed one puts the item first among
\* the completed ones, at the index that is the number of items still
\* incomplete, in front of the items completed before; it is the last item
\* of the list only when no item was completed before.
C28_CompletedGoesFirstOfBlock ==
    (last.op = "Complete" /\ ValidIndex(last.index, pre) /\ Partitioned(pre)
        /\ At(pre, last.index).Done = FALSE) =>
        LET left == Cardinality({k \in 1..Len(items) : items[k].Done = FALSE})
        IN  /\ At(items, left) = [At(pre, last.index) EXCEPT !.Done = TRUE]
            /\ SubSeq(items, left + 2, Len(items)) = SelectSeq(pre, Finished)
            /\ (left = Len(items) - 1) <=> (SelectSeq(pre, Finished) = <<>>)

\* Complete has been called on the first of two incomplete items that are
\* followed by two completed ones: it is now the second item.
C28_Witness ==
    /\ last.op = "Complete"
    /\ Len(pre) = 4
    /\ ~pre[1].Done /\ ~pre[2].Done /\ pre[3].Done /\ pre[4].Done
    /\ last.index = 0
    /\ items[2].Text = pre[1].Text
    /\ items[3] = pre[3]

\* C29: of the operations, Add alone can lead from a list in which every
\* incomplete item precedes every completed one to a list in which a
\* completed item precedes an incomplete one: Complete, Uncomplete, Sort,
\* Delete, Edit, SetPriority, SetDueDate, AddTag, RemoveTag and
\* ClearCompleted keep that order.
C29_OnlyAddBreaksOrder ==
    (last.op \in {"Complete", "Uncomplete", "Sort", "Delete", "Edit",
                  "SetPriority", "SetDueDate", "AddTag", "RemoveTag",
                  "ClearCompleted"}
        /\ Partitioned(pre)) => Partitioned(items)

\* Add has put an incomplete item behind the completed last item of a list
\* of two that was in order.
C29_Witness ==
    /\ last.op = "Add"
    /\ last.err = Nil
    /\ Len(pre) = 2
    /\ Partitioned(pre)
    /\ ~Partitioned(items)

\* The run p has ended and wrote the file.
Wrote(p) ==
    /\ procs.run[p].pc = "exit"
    /\ procs.run[p].wrote > 0

\* The run p has ended without an error and wrote the file.
Succeeded(p) == Wrote(p) /\ procs.run[p].err = Nil

\* The file holds an item of the text.
FileHasText(text) ==
    /\ "Items" \in DOMAIN file
    /\ \E k \in 1..Len(file.Items) : file.Items[k].Text = text

\* C27: two runs of the program on the same file can lose an update: when
\* both have loaded the file, as nobody else wrote it meanwhile, before
\* either saved it, and both have added their item and saved without an
\* error, the file holds the list of the run that saved last, without the
\* item the other run added.
C27_LastWriterWins ==
    \A p, q \in {1, 2} :
        (/\ Wrote(p) /\ Wrote(q)
         /\ procs.run[p].seen = procs.run[q].seen
         /\ procs.run[p].seen < procs.run[p].wrote
         /\ procs.run[p].wrote < procs.run[q].wrote
         /\ procs.run[p].text # procs.run[q].text
         /\ procs.writes = procs.run[q].wrote) =>
            /\ procs.run[p].err = Nil /\ procs.run[q].err = Nil
            /\ FileStores(procs.run[q].list)
            /\ ~FileHasText(procs.run[p].text)
            /\ FileHasText(procs.run[q].text)

\* Both runs loaded a file of one item, the first added and saved an item,
\* the second added and saved another: the file holds two items, and the
\* item of the first run is not among them.
C27_Witness ==
    /\ Succeeded(1) /\ Succeeded(2)
    /\ procs.run[1].seen = 1 /\ procs.run[2].seen = 1
    /\ procs.run[1].wrote = 2 /\ procs.run[2].wrote = 3
    /\ procs.run[1].text # procs.run[2].text
    /\ Len(file.Items) = 2
    /\ ~FileHasText(procs.run[1].text)

\* The list's tags are what the arrays hold.
TagsInArrays ==
    (held.caps # <<>>) =>
        \A k \in 1..Len(items) :
            /\ Len(items[k].Tags) <= held.caps[k]
            /\ Len(held.arrays[k]) = held.caps[k]
            /\ items[k].Tags = SubSeq(held.arrays[k], 1, Len(items[k].Tags))

====
